---- MODULE Spec2Model ----
(***************************************************************************)
(* A model of postnl_ai_api.py: the Flask handlers health and ai_query,    *)
(* the helper generate_explanation, and the Python/JSON semantics they     *)
(* rest on (dict.get, truthiness, str(), json.loads, json.dumps,           *)
(* try/except dispatch by exception class).                                *)
(***************************************************************************)
EXTENDS Integers, Sequences, FiniteSets, TLC

VARIABLES pc, body, inflight, calls, outcome, resp, healthResp, ge

vars == <<pc, body, inflight, calls, outcome, resp, healthResp, ge>>

(***************************************************************************)
(* Bounds of the model.                                                    *)
(***************************************************************************)
NumReq == 2
MaxFilters == 2
MaxSorts == 2
MaxGroups == 2

Requests == 1..NumReq

\* The value of a slot that holds nothing.
NoVal == [none |-> TRUE]

(***************************************************************************)
(* JSON values as Python holds them after json.loads / request.json.       *)
(* A dict is a sequence of <<key, value>> pairs: Python dicts keep         *)
(* insertion order.                                                        *)
(***************************************************************************)
JNull == [t |-> "null"]
JBool(b) == [t |-> "bool", b |-> b]
JNum(n) == [t |-> "num", n |-> n]
JStr(s) == [t |-> "str", s |-> s]
JArr(xs) == [t |-> "arr", xs |-> xs]
JObj(kv) == [t |-> "obj", kv |-> kv]

\* The name Python prints for the type of a value.
TypeName(v) ==
  CASE v.t = "null" -> "NoneType"
    [] v.t = "bool" -> "bool"
    [] v.t = "num" -> "int"
    [] v.t = "str" -> "str"
    [] v.t = "arr" -> "list"
    [] v.t = "obj" -> "dict"

\* Outcome of a Python expression: a value, or a raised exception.
Ok(v) == [ok |-> TRUE, val |-> v]
PyExc(cls, msg) == [cls |-> cls, msg |-> msg]
Raise(cls, msg) == [ok |-> FALSE, exc |-> PyExc(cls, msg)]

\* Python truthiness (the `not x` / `and x` tests).
Truthy(v) ==
  CASE v.t = "null" -> FALSE
    [] v.t = "bool" -> v.b
    [] v.t = "num" -> v.n # 0
    [] v.t = "str" -> v.s # ""
    [] v.t = "arr" -> Len(v.xs) > 0
    [] v.t = "obj" -> Len(v.kv) > 0

HasKey(kv, k) == \E i \in 1..Len(kv) : kv[i][1] = k

KeyIndex(kv, k) == CHOOSE i \in 1..Len(kv) : kv[i][1] = k

\* dict.get(k, default)
DictGet(kv, k, default) == IF HasKey(kv, k) THEN kv[KeyIndex(kv, k)][2] ELSE default

\* d[k] = v : a repeated key keeps its position and takes the new value.
DictSet(kv, k, v) ==
  IF HasKey(kv, k)
  THEN [kv EXCEPT ![KeyIndex(kv, k)] = <<k, v>>]
  ELSE Append(kv, <<k, v>>)

RECURSIVE JoinStr(_, _)
\* sep.join(parts) for a sequence of strings
JoinStr(sep, parts) ==
  IF Len(parts) = 0 THEN ""
  ELSE IF Len(parts) = 1 THEN parts[1]
  ELSE parts[1] \o sep \o JoinStr(sep, Tail(parts))

RECURSIVE py_repr(_)
\* repr(v): strings are quoted, containers print their elements' repr.
py_repr(v) ==
  CASE v.t = "null" -> "None"
    [] v.t = "bool" -> IF v.b THEN "True" ELSE "False"
    [] v.t = "num" -> ToString(v.n)
    [] v.t = "str" -> "'" \o v.s \o "'"
    [] v.t = "arr" ->
         "[" \o JoinStr(", ", [i \in 1..Len(v.xs) |-> py_repr(v.xs[i])]) \o "]"
    [] v.t = "obj" ->
         "{" \o JoinStr(", ", [i \in 1..Len(v.kv) |->
                  "'" \o v.kv[i][1] \o "': " \o py_repr(v.kv[i][2])]) \o "}"

\* str(v), as an f-string placeholder formats it: a string is itself.
py_str(v) == IF v.t = "str" THEN v.s ELSE py_repr(v)

(***************************************************************************)
(* json.loads.  The reply text is modelled after lexing: a sequence of     *)
(* tokens, each a punctuation mark, a string literal, a number literal or  *)
(* a bare word (null, true, false, or any other run of characters).        *)
(***************************************************************************)
Punct(s) == [k |-> "punct", s |-> s]
StrLit(s) == [k |-> "string", s |-> s]
NumLit(n) == [k |-> "number", n |-> n]
Word(s) == [k |-> "word", s |-> s]

IsPunct(toks, i, s) == i <= Len(toks) /\ toks[i] = Punct(s)

Parsed(v, next) == [ok |-> TRUE, val |-> v, next |-> next]
JSONDecodeError(msg) == Raise("JSONDecodeError", msg)

RECURSIVE ParseValue(_, _), ParseElements(_, _, _), ParseMembers(_, _, _)

\* json.decoder scan_once: one value starting at token i.
ParseValue(toks, i) ==
  IF i > Len(toks) THEN JSONDecodeError("Expecting value")
  ELSE LET tk == toks[i] IN
    CASE tk.k = "string" -> Parsed(JStr(tk.s), i + 1)
      [] tk.k = "number" -> Parsed(JNum(tk.n), i + 1)
      [] tk.k = "word" ->
           IF tk.s = "null" THEN Parsed(JNull, i + 1)
           ELSE IF tk.s = "true" THEN Parsed(JBool(TRUE), i + 1)
           ELSE IF tk.s = "false" THEN Parsed(JBool(FALSE), i + 1)
           ELSE JSONDecodeError("Expecting value")
      [] tk.k = "punct" ->
           IF tk.s = "[" THEN
             IF IsPunct(toks, i + 1, "]") THEN Parsed(JArr(<<>>), i + 2)
             ELSE ParseElements(toks, i + 1, <<>>)
           ELSE IF tk.s = "{" THEN
             IF IsPunct(toks, i + 1, "}") THEN Parsed(JObj(<<>>), i + 2)
             ELSE ParseMembers(toks, i + 1, <<>>)
           ELSE JSONDecodeError("Expecting value")

\* json.decoder JSONArray: the elements after "[" up to "]".
ParseElements(toks, i, acc) ==
  LET r == ParseValue(toks, i) IN
  IF ~r.ok THEN r
  ELSE IF IsPunct(toks, r.next, ",")
       THEN ParseElements(toks, r.next + 1, Append(acc, r.val))
  ELSE IF IsPunct(toks, r.next, "]")
       THEN Parsed(JArr(Append(acc, r.val)), r.next + 1)
  ELSE JSONDecodeError("Expecting ',' delimiter")

\* json.decoder JSONObject: the members after "{" up to "}".
ParseMembers(toks, i, acc) ==
  IF ~(i <= Len(toks) /\ toks[i].k = "string")
  THEN JSONDecodeError("Expecting property name enclosed in double quotes")
  ELSE IF ~IsPunct(toks, i + 1, ":")
  THEN JSONDecodeError("Expecting ':' delimiter")
  ELSE LET r == ParseValue(toks, i + 2) IN
    IF ~r.ok THEN r
    ELSE IF IsPunct(toks, r.next, ",")
         THEN ParseMembers(toks, r.next + 1, DictSet(acc, toks[i].s, r.val))
    ELSE IF IsPunct(toks, r.next, "}")
         THEN Parsed(JObj(DictSet(acc, toks[i].s, r.val)), r.next + 1)
    ELSE JSONDecodeError("Expecting ',' delimiter")

\* json.loads(text): one value and nothing after it.
json_loads(toks) ==
  LET r == ParseValue(toks, 1) IN
  IF ~r.ok THEN r
  ELSE IF r.next <= Len(toks) THEN JSONDecodeError("Extra data")
  ELSE Ok(r.val)

RECURSIVE Indent(_)
Indent(n) == IF n = 0 THEN "" ELSE "  " \o Indent(n - 1)

RECURSIVE json_dumps(_, _)
\* json.dumps(v, indent=2), at nesting depth d.
json_dumps(v, d) ==
  CASE v.t = "null" -> "null"
    [] v.t = "bool" -> IF v.b THEN "true" ELSE "false"
    [] v.t = "num" -> ToString(v.n)
    [] v.t = "str" -> "\"" \o v.s \o "\""
    [] v.t = "arr" ->
         IF Len(v.xs) = 0 THEN "[]"
         ELSE "[\n" \o JoinStr(",\n", [i \in 1..Len(v.xs) |->
                  Indent(d + 1) \o json_dumps(v.xs[i], d + 1)])
              \o "\n" \o Indent(d) \o "]"
    [] v.t = "obj" ->
         IF Len(v.kv) = 0 THEN "{}"
         ELSE "{\n" \o JoinStr(",\n", [i \in 1..Len(v.kv) |->
                  Indent(d + 1) \o "\"" \o v.kv[i][1] \o "\": "
                  \o json_dumps(v.kv[i][2], d + 1)])
              \o "\n" \o Indent(d) \o "}"

(***************************************************************************)
(* generate_explanation and the Python operations it applies to a value    *)
(* of any shape.                                                           *)
(***************************************************************************)

\* The characters of the model's strings that the code may iterate (TLA+
\* strings are atomic, so the table spells them out).
CharsOf(s) ==
  CASE s = "" -> <<>>
    [] s = "w" -> <<"w">>
    [] s = "weight" -> <<"w", "e", "i", "g", "h", "t">>

\* `sub in s` for strings: none of the model's strings properly contains
\* one of the three recognized keys, so containment is equality.
StrContains(s, sub) == s = sub

\* `key in v`
PyIn(key, v) ==
  CASE v.t = "obj" -> Ok(HasKey(v.kv, key))
    [] v.t = "arr" -> Ok(\E i \in 1..Len(v.xs) : v.xs[i] = JStr(key))
    [] v.t = "str" -> Ok(StrContains(v.s, key))
    [] OTHER -> Raise("TypeError",
                      "argument of type '" \o TypeName(v) \o "' is not iterable")

\* `v[key]` for a string key
Subscript(v, key) ==
  CASE v.t = "obj" ->
         IF HasKey(v.kv, key) THEN Ok(DictGet(v.kv, key, JNull))
         ELSE Raise("KeyError", "'" \o key \o "'")
    [] v.t = "arr" ->
         Raise("TypeError", "list indices must be integers or slices, not str")
    [] v.t = "str" -> Raise("TypeError", "string indices must be integers, not 'str'")
    [] OTHER -> Raise("TypeError",
                      "'" \o TypeName(v) \o "' object is not subscriptable")

\* `key in state and state[key]`, as a condition
KeyPresentAndTruthy(state, key) ==
  LET c == PyIn(key, state) IN
  IF ~c.ok THEN c
  ELSE IF ~c.val THEN Ok(FALSE)
  ELSE LET s == Subscript(state, key) IN
       IF ~s.ok THEN s ELSE Ok(Truthy(s.val))

\* The items a `for` loop or str.join draws from v.
PyIter(v) ==
  CASE v.t = "arr" -> Ok(v.xs)
    [] v.t = "obj" -> Ok([i \in 1..Len(v.kv) |-> JStr(v.kv[i][1])])
    [] v.t = "str" -> Ok([i \in 1..Len(CharsOf(v.s)) |-> JStr(CharsOf(v.s)[i])])
    [] OTHER -> Raise("TypeError",
                      "'" \o TypeName(v) \o "' object is not iterable")

\* One pass of the filter loop's body: the fragment for (col, filter_def).
FilterFragment(col, filter_def) ==
  IF filter_def.t # "obj"
  THEN Raise("AttributeError",
             "'" \o TypeName(filter_def) \o "' object has no attribute 'get'")
  ELSE LET filter_value == DictGet(filter_def.kv, "filter", JStr(""))
           filter_type == DictGet(filter_def.kv, "type", JStr("contains"))
       IN Ok("Filtered " \o col \o " " \o py_str(filter_type)
             \o " '" \o py_str(filter_value) \o "'")

RECURSIVE FilterLoop(_, _, _)
\* for col, filter_def in filters.items(): explanations.append(...)
FilterLoop(kv, i, explanations) ==
  IF i > Len(kv) THEN Ok(explanations)
  ELSE LET f == FilterFragment(kv[i][1], kv[i][2]) IN
       IF ~f.ok THEN f
       ELSE FilterLoop(kv, i + 1, Append(explanations, f.val))

\* The "Check filters" block.
CheckFilters(state, explanations) ==
  LET c == KeyPresentAndTruthy(state, "filterModel") IN
  IF ~c.ok THEN c
  ELSE IF ~c.val THEN Ok(explanations)
  ELSE LET filters == Subscript(state, "filterModel").val IN
       IF filters.t # "obj"
       THEN Raise("AttributeError",
                  "'" \o TypeName(filters) \o "' object has no attribute 'items'")
       ELSE FilterLoop(filters.kv, 1, explanations)

\* One pass of the sort loop's body: the fragment for one sortModel entry.
SortFragment(sort) ==
  LET col == Subscript(sort, "colId") IN
  IF ~col.ok THEN col
  ELSE LET dir == Subscript(sort, "sort") IN
       IF ~dir.ok THEN dir
       ELSE Ok("Sorted by " \o py_str(col.val) \o " ("
               \o (IF dir.val = JStr("desc") THEN "descending" ELSE "ascending")
               \o ")")

RECURSIVE SortLoop(_, _, _)
\* for sort in state['sortModel']: explanations.append(...)
SortLoop(items, i, explanations) ==
  IF i > Len(items) THEN Ok(explanations)
  ELSE LET f == SortFragment(items[i]) IN
       IF ~f.ok THEN f
       ELSE SortLoop(items, i + 1, Append(explanations, f.val))

\* The "Check sorting" block.
CheckSorting(state, explanations) ==
  LET c == KeyPresentAndTruthy(state, "sortModel") IN
  IF ~c.ok THEN c
  ELSE IF ~c.val THEN Ok(explanations)
  ELSE LET items == PyIter(Subscript(state, "sortModel").val) IN
       IF ~items.ok THEN items
       ELSE SortLoop(items.val, 1, explanations)

\* ', '.join(v)
JoinColumns(v) ==
  IF v.t \notin {"arr", "obj", "str"}
  THEN Raise("TypeError", "can only join an iterable")
  ELSE LET items == PyIter(v).val
           bad == {i \in 1..Len(items) : items[i].t # "str"}
       IN IF bad # {}
          THEN LET first == CHOOSE i \in bad : \A j \in bad : i <= j IN
               Raise("TypeError",
                     "sequence item " \o ToString(first - 1)
                     \o ": expected str instance, "
                     \o TypeName(items[first]) \o " found")
          ELSE Ok(JoinStr(", ", [i \in 1..Len(items) |-> items[i].s]))

\* The "Check grouping" block.
CheckGrouping(state, explanations) ==
  LET c == KeyPresentAndTruthy(state, "rowGroupColumns") IN
  IF ~c.ok THEN c
  ELSE IF ~c.val THEN Ok(explanations)
  ELSE LET cols == JoinColumns(Subscript(state, "rowGroupColumns").val) IN
       IF ~cols.ok THEN cols
       ELSE Ok(Append(explanations, "Grouped by " \o cols.val))

\* Faulty variant of generate_explanation: the sort block runs before the
\* filter block.
generate_explanation_sorts_first(query, state) ==
  LET s == CheckSorting(state, <<>>) IN
  IF ~s.ok THEN s
  ELSE LET f == CheckFilters(state, s.val) IN
  IF ~f.ok THEN f
  ELSE LET g == CheckGrouping(state, f.val) IN
  IF ~g.ok THEN g
  ELSE IF Len(g.val) = 0 THEN Ok("Applied query: " \o py_str(query))
  ELSE Ok(JoinStr(" | ", g.val))

\* Faulty variant of generate_explanation: the fallback is taken as soon as
\* the filter block produced nothing.
generate_explanation_fallback_early(query, state) ==
  LET f == CheckFilters(state, <<>>) IN
  IF ~f.ok THEN f
  ELSE IF Len(f.val) = 0 THEN Ok("Applied query: " \o py_str(query))
  ELSE LET s == CheckSorting(state, f.val) IN
  IF ~s.ok THEN s
  ELSE LET g == CheckGrouping(state, s.val) IN
  IF ~g.ok THEN g
  ELSE Ok(JoinStr(" | ", g.val))

\* generate_explanation(query, state): the explanation, or the exception
\* raised on the way.
generate_explanation(query, state) ==
  LET f == CheckFilters(state, <<>>) IN
  IF ~f.ok THEN f
  ELSE LET s == CheckSorting(state, f.val) IN
  IF ~s.ok THEN s
  ELSE LET g == CheckGrouping(state, s.val) IN
  IF ~g.ok THEN g
  ELSE IF Len(g.val) = 0 THEN Ok("Applied query: " \o py_str(query))
  ELSE Ok(JoinStr(" | ", g.val))

(***************************************************************************)
(* The handlers.                                                           *)
(***************************************************************************)
Response(status, b) == [status |-> status, body |-> b]

\* A fault that leaves the handler uncaught (none of the except clauses
\* took it).
Unhandled(exc) == [unhandled |-> exc]

MODEL_NAME == "gemini-2.0-flash-exp"

\* Faulty variant of health: reports the failures of the requests in hand.
health_degraded ==
  IF \E r \in Requests : "status" \in DOMAIN resp[r] /\ resp[r].status = 500
  THEN Response(500, [status |-> "degraded", model |-> MODEL_NAME])
  ELSE Response(200, [status |-> "healthy", model |-> MODEL_NAME])

\* health(): the status and the model name, whatever the state.
health == Response(200, [status |-> "healthy", model |-> MODEL_NAME])

Tabs == {"parcels", "emails", "shipments", "attachments"}

\* The four column descriptions the prompt template spells out.
ColumnDescription ==
  [parcels |-> "Parcels tab: mode_of_transport, tracking_number, trip_number, scac_code, consignee_name, weight, commercial_value, origin_country, dest_country, source_file",
   emails |-> "Emails tab: from_email, subject, received_date, type",
   shipments |-> "Shipments tab: trip_number, mode, parcel_count, total_weight, source_file",
   attachments |-> "Attachments tab: filename, from_email, size, received_date"]

\* Faulty variant of system_prompt: only the selected tab's columns are
\* described.
system_prompt_selected_tab(user_query, grid_schema, current_state, tab) ==
  << "You are an AI assistant that converts natural language queries into AG Grid state changes.",
     "CURRENT TAB: " \o py_str(tab),
     "AVAILABLE COLUMNS AND THEIR MEANINGS:",
     IF tab.t = "str" /\ tab.s \in Tabs THEN ColumnDescription[tab.s] ELSE "",
     "GRID SCHEMA:\n" \o json_dumps(grid_schema, 0),
     "CURRENT STATE:\n" \o json_dumps(current_state, 0),
     "USER QUERY: \"" \o py_str(user_query) \o "\"",
     "Your task: ... Common operations: ... Examples: ... Return ONLY valid JSON." >>

\* The f-string system_prompt, as the sequence of its segments.
system_prompt(user_query, grid_schema, current_state, tab) ==
  << "You are an AI assistant that converts natural language queries into AG Grid state changes.",
     "CURRENT TAB: " \o py_str(tab),
     "AVAILABLE COLUMNS AND THEIR MEANINGS:",
     ColumnDescription.parcels,
     ColumnDescription.emails,
     ColumnDescription.shipments,
     ColumnDescription.attachments,
     "GRID SCHEMA:\n" \o json_dumps(grid_schema, 0),
     "CURRENT STATE:\n" \o json_dumps(current_state, 0),
     "USER QUERY: \"" \o py_str(user_query) \o "\"",
     "Your task: ... Common operations: ... Examples: ... Return ONLY valid JSON." >>

\* Faulty variant of except_clauses: the `except Exception` clause is
\* missing, so only a JSONDecodeError is caught.
except_clauses_json_only(exc) ==
  IF exc.cls = "JSONDecodeError"
  THEN Response(500, [success |-> FALSE,
                      error |-> "Invalid JSON response from AI: " \o exc.msg])
  ELSE Unhandled(exc)

\* The except clauses of ai_query: dispatch on the exception's class.
except_clauses(exc) ==
  IF exc.cls = "JSONDecodeError"
  THEN Response(500, [success |-> FALSE,
                      error |-> "Invalid JSON response from AI: " \o exc.msg])
  ELSE Response(500, [success |-> FALSE, error |-> exc.msg])

\* The arguments of the call model.generate_content(system_prompt,
\* generation_config={...}).
generate_content(contents) ==
  [contents |-> contents,
   generation_config |-> [temperature |-> "0.1",
                          response_mime_type |-> "application/json"]]

\* ai_query from request.json up to the call of model.generate_content:
\* either a response, or the call to make.
ai_query_start(b) ==
  IF b.raises THEN [respond |-> TRUE, resp |-> except_clauses(b.exc)]
  ELSE LET data == b.data IN
    IF data.t # "obj"
    THEN [respond |-> TRUE,
          resp |-> except_clauses(PyExc("AttributeError",
                     "'" \o TypeName(data) \o "' object has no attribute 'get'"))]
    ELSE LET user_query == DictGet(data.kv, "query", JStr(""))
             grid_schema == DictGet(data.kv, "schema", JObj(<<>>))
             current_state == DictGet(data.kv, "currentState", JObj(<<>>))
             tab == DictGet(data.kv, "tab", JStr("parcels"))
         IN IF ~Truthy(user_query)
            THEN [respond |-> TRUE,
                  resp |-> Response(400, [success |-> FALSE,
                                          error |-> "No query provided"])]
            ELSE [respond |-> FALSE,
                  call |-> generate_content(
                             system_prompt(user_query, grid_schema,
                                           current_state, tab))]

\* Faulty variant of ai_query_finish: the explanation is made from an empty
\* patch instead of the parsed reply.
ai_query_finish_stale(user_query, text) ==
  LET new_state == json_loads(text) IN
  IF ~new_state.ok THEN except_clauses(new_state.exc)
  ELSE LET explanation == generate_explanation(user_query, JObj(<<>>)) IN
       IF ~explanation.ok THEN except_clauses(explanation.exc)
       ELSE Response(200, [success |-> TRUE,
                           newState |-> new_state.val,
                           explanation |-> explanation.val])

\* ai_query from the return of model.generate_content to its response.
ai_query_finish(user_query, text) ==
  LET new_state == json_loads(text) IN
  IF ~new_state.ok THEN except_clauses(new_state.exc)
  ELSE LET explanation == generate_explanation(user_query, new_state.val) IN
       IF ~explanation.ok THEN except_clauses(explanation.exc)
       ELSE Response(200, [success |-> TRUE,
                           newState |-> new_state.val,
                           explanation |-> explanation.val])

(***************************************************************************)
(* The inputs: request bodies, and what the external model does.           *)
(***************************************************************************)
RECURSIVE JsonText(_)
\* The JSON text of a value, as tokens.
JsonText(v) ==
  CASE v.t = "null" -> <<Word("null")>>
    [] v.t = "bool" -> <<Word(IF v.b THEN "true" ELSE "false")>>
    [] v.t = "num" -> <<NumLit(v.n)>>
    [] v.t = "str" -> <<StrLit(v.s)>>
    [] v.t = "arr" ->
         LET F[i \in 0..Len(v.xs)] ==
               IF i = 0 THEN <<>>
               ELSE F[i - 1] \o (IF i > 1 THEN <<Punct(",")>> ELSE <<>>)
                    \o JsonText(v.xs[i])
         IN <<Punct("[")>> \o F[Len(v.xs)] \o <<Punct("]")>>
    [] v.t = "obj" ->
         LET F[i \in 0..Len(v.kv)] ==
               IF i = 0 THEN <<>>
               ELSE F[i - 1] \o (IF i > 1 THEN <<Punct(",")>> ELSE <<>>)
                    \o <<StrLit(v.kv[i][1]), Punct(":")>> \o JsonText(v.kv[i][2])
         IN <<Punct("{")>> \o F[Len(v.kv)] \o <<Punct("}")>>

Field(k, v) == <<k, v>>

SomeQuery == JStr("show TRUCK parcels by weight")
BlankQuery == JStr("   ")

\* Strings made of whitespace only.
WhitespaceOnly == {" ", "   "}

JsonBody(v) == [raises |-> FALSE, data |-> v]

\* What request.json yields: a raised HTTP error (no JSON body), a JSON
\* value that is no object, or an object with some of the four keys.
Bodies ==
  { [raises |-> TRUE,
     exc |-> PyExc("UnsupportedMediaType", "415 Unsupported Media Type")],
    JsonBody(JNull),
    JsonBody(JArr(<<SomeQuery>>)),
    JsonBody(JObj(<<>>)),
    JsonBody(JObj(<<Field("query", JStr(""))>>)),
    JsonBody(JObj(<<Field("query", BlankQuery)>>)),
    JsonBody(JObj(<<Field("query", SomeQuery)>>)),
    JsonBody(JObj(<<Field("query", SomeQuery), Field("tab", JStr("emails"))>>)),
    JsonBody(JObj(<<Field("query", SomeQuery),
                    Field("schema", JObj(<<Field("columns", JArr(<<JStr("weight")>>))>>)),
                    Field("currentState", JObj(<<Field("sortModel", JArr(<<>>))>>)),
                    Field("tab", JStr("shipments"))>>)) }

FullPatch ==
  JObj(<< Field("rowGroupColumns", JArr(<<JStr("mode_of_transport"), JStr("origin_country")>>)),
          Field("sortModel", JArr(<<JObj(<<Field("colId", JStr("weight")),
                                          Field("sort", JStr("desc"))>>)>>)),
          Field("filterModel", JObj(<<Field("mode_of_transport",
                   JObj(<<Field("filterType", JStr("text")),
                          Field("type", JStr("equals")),
                          Field("filter", JStr("TRUCK"))>>))>>)) >>)

\* The reply texts of the external model: not JSON, cut short, and JSON
\* of several shapes.
ReplyTexts ==
  { <<Word("Sure,"), Word("here"), Word("is"), Word("the"), Word("state")>>,
    <<Punct("{"), StrLit("sortModel"), Punct(":")>>,
    JsonText(JObj(<<>>)),
    JsonText(JNum(5)),
    JsonText(FullPatch),
    JsonText(JObj(<<Field("sortModel", JArr(<<JObj(<<Field("colId", JStr("weight"))>>)>>))>>)),
    JsonText(JObj(<<Field("rowGroupColumns", JStr("weight"))>>)) }

\* The exceptions model.generate_content raises.
CallErrors ==
  { PyExc("ResourceExhausted", "429 Quota exceeded"),
    PyExc("TimeoutError", ""),
    PyExc("JSONDecodeError", "Expecting value") }

\* user_query of a request whose body passed the validation
UserQuery(b) == DictGet(b.data.kv, "query", JStr(""))

(***************************************************************************)
(* The state machine: NumReq requests in flight at once, each handled by   *)
(* ai_query; health answered at any time.                                  *)
(***************************************************************************)
Idle == [r \in Requests |-> NoVal]

Init ==
  /\ pc = [r \in Requests |-> "idle"]
  /\ body = Idle
  /\ inflight = Idle
  /\ calls = [r \in Requests |-> 0]
  /\ outcome = Idle
  /\ resp = Idle
  /\ healthResp = NoVal
  /\ ge = NoVal

\* GET /health
Health ==
  /\ healthResp' = health
  /\ UNCHANGED <<pc, body, inflight, calls, outcome, resp, ge>>

\* POST /ai/query arrives with body b: the handler runs to its response,
\* or to the call of the external model.
AiQueryStart(r, b) ==
  /\ pc[r] = "idle"
  /\ body' = [body EXCEPT ![r] = b]
  /\ LET s == ai_query_start(b) IN
     IF s.respond
     THEN /\ resp' = [resp EXCEPT ![r] = s.resp]
          /\ pc' = [pc EXCEPT ![r] = "done"]
          /\ UNCHANGED <<inflight, calls>>
     ELSE /\ inflight' = [inflight EXCEPT ![r] = s.call]
          /\ calls' = [calls EXCEPT ![r] = @ + 1]
          /\ pc' = [pc EXCEPT ![r] = "calling"]
          /\ UNCHANGED resp
  /\ UNCHANGED <<outcome, healthResp, ge>>

\* model.generate_content returns a reply with the given text: the handler
\* runs on to its response.
ModelReturns(r, text) ==
  /\ pc[r] = "calling"
  /\ outcome' = [outcome EXCEPT ![r] = [raised |-> FALSE, text |-> text]]
  /\ resp' = [resp EXCEPT ![r] = ai_query_finish(UserQuery(body[r]), text)]
  /\ pc' = [pc EXCEPT ![r] = "done"]
  /\ UNCHANGED <<body, inflight, calls, healthResp, ge>>

\* Faulty variant of ModelRaises: the first failure is retried once.
ModelRaisesRetry(r, exc) ==
  /\ pc[r] = "calling"
  /\ IF calls[r] < 2
     THEN /\ calls' = [calls EXCEPT ![r] = @ + 1]
          /\ UNCHANGED <<pc, outcome, resp>>
     ELSE /\ outcome' = [outcome EXCEPT ![r] = [raised |-> TRUE, exc |-> exc]]
          /\ resp' = [resp EXCEPT ![r] = except_clauses(exc)]
          /\ pc' = [pc EXCEPT ![r] = "done"]
          /\ UNCHANGED calls
  /\ UNCHANGED <<body, inflight, healthResp, ge>>

\* model.generate_content raises exc: the except clauses answer.
ModelRaises(r, exc) ==
  /\ pc[r] = "calling"
  /\ outcome' = [outcome EXCEPT ![r] = [raised |-> TRUE, exc |-> exc]]
  /\ resp' = [resp EXCEPT ![r] = except_clauses(exc)]
  /\ pc' = [pc EXCEPT ![r] = "done"]
  /\ UNCHANGED <<body, inflight, calls, healthResp, ge>>

\* The response is sent and the request is over; nothing of it is kept.
Respond(r) ==
  /\ pc[r] = "done"
  /\ pc' = [pc EXCEPT ![r] = "idle"]
  /\ body' = [body EXCEPT ![r] = NoVal]
  /\ inflight' = [inflight EXCEPT ![r] = NoVal]
  /\ calls' = [calls EXCEPT ![r] = 0]
  /\ outcome' = [outcome EXCEPT ![r] = NoVal]
  /\ resp' = [resp EXCEPT ![r] = NoVal]
  /\ UNCHANGED <<healthResp, ge>>

Next ==
  \/ Health
  \/ \E r \in Requests, b \in Bodies : AiQueryStart(r, b)
  \/ \E r \in Requests, text \in ReplyTexts : ModelReturns(r, text)
  \/ \E r \in Requests, exc \in CallErrors : ModelRaises(r, exc)
  \/ \E r \in Requests : Respond(r)

Spec == Init /\ [][Next]_vars

(***************************************************************************)
(* generate_explanation on its own: called once on a query and a state     *)
(* patch drawn from the well-formed patches of up to MaxFilters filters,   *)
(* MaxSorts sorts and MaxGroups group columns, the three keys in either    *)
(* order.                                                                  *)
(***************************************************************************)
SeqsUpTo(S, n) == UNION {[1..k -> S] : k \in 0..n}

Cols == {"weight", "mode_of_transport"}

FilterDefs ==
  { JObj(<<>>),
    JObj(<<Field("filterType", JStr("text")), Field("filter", JStr("TRUCK"))>>),
    JObj(<<Field("type", JStr("equals")), Field("filter", JStr("TRUCK"))>>) }

SortEntries ==
  { JObj(<<Field("colId", JStr("weight")), Field("sort", JStr("desc"))>>),
    JObj(<<Field("colId", JStr("weight")), Field("sort", JStr("asc"))>>),
    JObj(<<Field("colId", JStr("mode_of_transport")), Field("sort", JStr("desc"))>>) }

\* filterModel mappings: no column twice
FilterModels ==
  { fm \in SeqsUpTo(Cols \X FilterDefs, MaxFilters) :
      \A i, j \in 1..Len(fm) : fm[i][1] = fm[j][1] => i = j }

SortModels == SeqsUpTo(SortEntries, MaxSorts)

GroupLists == SeqsUpTo({JStr(c) : c \in Cols}, MaxGroups)

\* Each key is absent (no field) or present with a value, possibly empty.
FilterFields == {<<>>} \cup {<<Field("filterModel", JObj(fm))>> : fm \in FilterModels}
SortFields == {<<>>} \cup {<<Field("sortModel", JArr(sm))>> : sm \in SortModels}
GroupFields == {<<>>} \cup {<<Field("rowGroupColumns", JArr(g))>> : g \in GroupLists}

\* The patch with the given fields, the three keys in the order filters,
\* sorts, groups or in the opposite order.
Patch(f, s, g, reversed) == IF reversed THEN JObj(g \o s \o f) ELSE JObj(f \o s \o g)

ExplainQueries == {SomeQuery, JStr("")}

ExplainInit ==
  /\ pc = [r \in Requests |-> "idle"]
  /\ body = Idle
  /\ inflight = Idle
  /\ calls = [r \in Requests |-> 0]
  /\ outcome = Idle
  /\ resp = Idle
  /\ healthResp = NoVal
  /\ \E q \in ExplainQueries, f \in FilterFields, s \in SortFields,
        g \in GroupFields, reversed \in BOOLEAN :
       ge = [pc |-> "input", query |-> q, state |-> Patch(f, s, g, reversed),
             out |-> NoVal]

\* The one call of generate_explanation.
Explain ==
  /\ ge.pc = "input"
  /\ ge' = [ge EXCEPT !.pc = "returned",
                      !.out = generate_explanation(ge.query, ge.state)]
  /\ UNCHANGED <<pc, body, inflight, calls, outcome, resp, healthResp>>

ExplainNext == Explain

ExplainSpec == ExplainInit /\ [][ExplainNext]_vars

(***************************************************************************)
(* Properties of ai_query and health, under Spec.                          *)
(***************************************************************************)
InHand(r) == pc[r] # "idle"
Called(r) == pc[r] = "done" /\ "raised" \in DOMAIN outcome[r]
CallRaised(r) == Called(r) /\ outcome[r].raised
CallReturned(r) == Called(r) /\ ~outcome[r].raised
ObjectBody(r) == InHand(r) /\ ~body[r].raises /\ body[r].data.t = "obj"

\* The body's query is absent, empty, or whitespace only.
NoQueryGiven(r) ==
  /\ ObjectBody(r)
  /\ \/ ~HasKey(body[r].data.kv, "query")
     \/ LET q == DictGet(body[r].data.kv, "query", JNull) IN
        q.t = "str" /\ (q.s = "" \/ q.s \in WhitespaceOnly)

\* The body is an object whose query Python takes as true.
PassedValidation(r) ==
  ObjectBody(r) /\ Truthy(DictGet(body[r].data.kv, "query", JStr("")))

IsErrorResponse(x, statuses) ==
  /\ DOMAIN x = {"status", "body"}
  /\ x.status \in statuses
  /\ DOMAIN x.body = {"success", "error"}
  /\ x.body.success = FALSE
  /\ x.body.error \in STRING

IsSuccessResponse(x) ==
  /\ DOMAIN x = {"status", "body"}
  /\ x.status = 200
  /\ DOMAIN x.body = {"success", "newState", "explanation"}
  /\ x.body.success = TRUE
  /\ x.body.explanation \in STRING

\* The details an error message of the model can carry.
ErrorDetails ==
  {e.msg : e \in CallErrors}
  \cup {"Expecting value", "Extra data", "Expecting ',' delimiter",
        "Expecting ':' delimiter",
        "Expecting property name enclosed in double quotes"}

\* The error begins "Invalid JSON response from AI: ".
HasInvalidJsonPrefix(x) ==
  /\ IsErrorResponse(x, {500})
  /\ \E d \in ErrorDetails : x.body.error = "Invalid JSON response from AI: " \o d

\* C1: a request whose query is absent, empty or whitespace only is
\* answered 400 {success: false, error: "No query provided"} and the
\* external model is never called for it.
C1_NoQueryIsRejectedWithoutCall ==
  \A r \in Requests :
    NoQueryGiven(r) =>
      /\ pc[r] = "done"
      /\ resp[r] = Response(400, [success |-> FALSE, error |-> "No query provided"])
      /\ calls[r] = 0

\* C2: when the external call raises, the response is 500 with
\* success=false and a non-empty error message, and carries neither
\* newState nor explanation.
C2_CallErrorGivesNonEmptyMessage ==
  \A r \in Requests :
    CallRaised(r) =>
      /\ IsErrorResponse(resp[r], {500})
      /\ resp[r].body.error # ""

\* C3: the response is a 500 whose error begins "Invalid JSON response from
\* AI: " exactly when the external call returned and its reply text failed
\* to parse as JSON; no other origin of failure produces that prefix.
C3_InvalidJsonPrefixIffReplyUnparsable ==
  \A r \in Requests :
    pc[r] = "done" =>
      (HasInvalidJsonPrefix(resp[r])
         <=> (CallReturned(r) /\ ~json_loads(outcome[r].text).ok))

\* C4: every request ends with exactly one response, of one of the two
\* shapes: 200 {success: true, newState, explanation}, or 400/500
\* {success: false, error}; no fault leaves the handler uncaught, and a
\* request still in the handler has no response yet.
C4_UniformResponse ==
  \A r \in Requests :
    /\ pc[r] = "done" =>
         \/ IsSuccessResponse(resp[r])
         \/ IsErrorResponse(resp[r], {400, 500})
    /\ pc[r] # "done" => resp[r] = NoVal

\* C4 witness: a request whose JSON body is null (data.get raises
\* AttributeError) ended with the 500 error response.
C4_Witness ==
  \E r \in Requests :
    /\ pc[r] = "done"
    /\ body[r] = JsonBody(JNull)
    /\ resp[r] = Response(500, [success |-> FALSE,
                  error |-> "'NoneType' object has no attribute 'get'"])

\* C7: a request that passed the validation makes exactly one call of the
\* external model, one that did not makes none; a call is never repeated,
\* whether it failed or succeeded.
C7_ExactlyOneCall ==
  \A r \in Requests :
    /\ calls[r] <= 1
    /\ pc[r] = "calling" => calls[r] = 1
    /\ pc[r] = "done" => calls[r] = (IF PassedValidation(r) THEN 1 ELSE 0)
    /\ pc[r] = "done" /\ calls[r] = 1 => Called(r)

\* C7 witness: a request whose single call raised has its error response,
\* with one call made.
C7_Witness ==
  \E r \in Requests :
    /\ CallRaised(r)
    /\ PassedValidation(r)
    /\ calls[r] = 1
    /\ resp[r].status = 500

\* C8: every answer of /health is 200 {status: "healthy", model:
\* "gemini-2.0-flash-exp"}, whatever requests came before or are in hand.
C8_HealthAlwaysHealthy ==
  healthResp # NoVal =>
    healthResp = [status |-> 200,
                  body |-> [status |-> "healthy", model |-> "gemini-2.0-flash-exp"]]

\* C8 witness: /health has answered while one request failed with a 500
\* and another is waiting for the external model.
C8_Witness ==
  /\ healthResp # NoVal
  /\ \E r \in Requests : pc[r] = "done" /\ resp[r].status = 500
  /\ \E r \in Requests : pc[r] = "calling"

\* The reply of request r, parsed.
ParsedReply(r) == json_loads(outcome[r].text)

\* C9, as stated: whenever the call returned and the reply parses as JSON,
\* the response is 200 with newState the parsed reply and explanation
\* generate_explanation(query, newState); valid JSON never gives an error.
C9_ValidJsonAlwaysSucceeds ==
  \A r \in Requests :
    (CallReturned(r) /\ ParsedReply(r).ok) =>
      LET e == generate_explanation(UserQuery(body[r]), ParsedReply(r).val) IN
      /\ e.ok
      /\ resp[r] = Response(200, [success |-> TRUE,
                                  newState |-> ParsedReply(r).val,
                                  explanation |-> e.val])

\* C9, amended: whenever the call returned and the reply parses as JSON,
\* the response is 200 with newState the parsed reply and explanation
\* generate_explanation(query, newState) if generate_explanation returns;
\* if it raises on the parsed value, the response is the 500 error with the
\* exception's message.
C9_ValidJsonSucceedsUnlessExplanationRaises ==
  \A r \in Requests :
    (CallReturned(r) /\ ParsedReply(r).ok) =>
      LET e == generate_explanation(UserQuery(body[r]), ParsedReply(r).val) IN
      IF e.ok
      THEN resp[r] = Response(200, [success |-> TRUE,
                                    newState |-> ParsedReply(r).val,
                                    explanation |-> e.val])
      ELSE resp[r] = Response(500, [success |-> FALSE, error |-> e.exc.msg])

\* C9 witness: one request was answered with the full patch and its
\* explanation, another, whose reply was the JSON number 5, with a 500.
C9_Witness ==
  /\ \E r \in Requests :
       /\ CallReturned(r)
       /\ outcome[r].text = JsonText(FullPatch)
       /\ resp[r].status = 200
       /\ resp[r].body.newState = FullPatch
       /\ resp[r].body.explanation =
            "Filtered mode_of_transport equals 'TRUCK' | Sorted by weight (descending) | Grouped by mode_of_transport, origin_country"
  /\ \E r \in Requests :
       /\ CallReturned(r)
       /\ outcome[r].text = <<NumLit(5)>>
       /\ resp[r] = Response(500, [success |-> FALSE,
                      error |-> "argument of type 'int' is not iterable"])

\* A call of the external model has been made for request r.
Sent(r) == InHand(r) /\ "contents" \in DOMAIN inflight[r]

\* The tab the request selects: its `tab`, "parcels" when it gives none.
SelectedTab(r) == py_str(DictGet(body[r].data.kv, "tab", JStr("parcels")))

\* The tabs whose column description is a segment of the prompt.
DescribedTabs(p) ==
  {t \in Tabs : \E i \in 1..Len(p) : p[i] = ColumnDescription[t]}

WithoutTab(kv) == SelectSeq(kv, LAMBDA f : f[1] # "tab")

\* Two requests with a call made, whose bodies differ in the tab only.
DifferInTabOnly(r1, r2) ==
  /\ Sent(r1) /\ Sent(r2)
  /\ WithoutTab(body[r1].data.kv) = WithoutTab(body[r2].data.kv)
  /\ SelectedTab(r1) # SelectedTab(r2)

FiltersOf(state) == DictGet(state.kv, "filterModel", JObj(<<>>)).kv
SortsOf(state) == DictGet(state.kv, "sortModel", JArr(<<>>)).xs
GroupsOf(state) == DictGet(state.kv, "rowGroupColumns", JArr(<<>>)).xs

\* Filtered <column> <type, "contains" if missing> '<filter, empty if missing>'
ExpectedFilterFragment(entry) ==
  "Filtered " \o entry[1] \o " "
  \o (IF HasKey(entry[2].kv, "type")
      THEN DictGet(entry[2].kv, "type", JNull).s ELSE "contains")
  \o " '"
  \o (IF HasKey(entry[2].kv, "filter")
      THEN DictGet(entry[2].kv, "filter", JNull).s ELSE "")
  \o "'"

\* Sorted by <colId> (<descending if sort is "desc", else ascending>)
ExpectedSortFragment(entry) ==
  "Sorted by " \o DictGet(entry.kv, "colId", JNull).s \o " ("
  \o (IF DictGet(entry.kv, "sort", JNull).s = "desc"
      THEN "descending" ELSE "ascending")
  \o ")"

\* Grouped by <the columns, comma-and-space joined>
ExpectedGroupFragment(cols) ==
  "Grouped by " \o JoinStr(", ", [i \in 1..Len(cols) |-> cols[i].s])

\* The fragments in the fixed order: filters, then sorts, then the group.
ExpectedFragments(state) ==
  LET nf == Len(FiltersOf(state))
      ns == Len(SortsOf(state))
      ng == IF Len(GroupsOf(state)) > 0 THEN 1 ELSE 0
  IN [i \in 1..(nf + ns + ng) |->
        IF i <= nf THEN ExpectedFilterFragment(FiltersOf(state)[i])
        ELSE IF i <= nf + ns THEN ExpectedSortFragment(SortsOf(state)[i - nf])
        ELSE ExpectedGroupFragment(GroupsOf(state))]

\* C5: for a well-formed patch with at least one non-empty key, the
\* explanation is the fragments joined by " | " in the fixed order: one
\* "Filtered" fragment per filterModel entry in mapping order, then one
\* "Sorted by" fragment per sortModel entry in sequence order, then at most
\* one "Grouped by" fragment with the columns in input order.
C5_FragmentsInFixedOrder ==
  (ge.pc = "returned" /\ Len(ExpectedFragments(ge.state)) > 0) =>
    ge.out = Ok(JoinStr(" | ", ExpectedFragments(ge.state)))

\* C5 witness: a patch that lists its keys in the order groups, sorts,
\* filters, with two entries each, is explained filters first.
C5_Witness ==
  /\ ge.pc = "returned"
  /\ ge.state =
       JObj(<< Field("rowGroupColumns", JArr(<<JStr("weight"), JStr("mode_of_transport")>>)),
               Field("sortModel", JArr(<<
                   JObj(<<Field("colId", JStr("weight")), Field("sort", JStr("desc"))>>),
                   JObj(<<Field("colId", JStr("weight")), Field("sort", JStr("asc"))>>) >>)),
               Field("filterModel", JObj(<<
                   Field("mode_of_transport",
                         JObj(<<Field("type", JStr("equals")), Field("filter", JStr("TRUCK"))>>)),
                   Field("weight", JObj(<<>>)) >>)) >>)
  /\ ge.out = Ok("Filtered mode_of_transport equals 'TRUCK' | Filtered weight contains '' | Sorted by weight (descending) | Sorted by weight (ascending) | Grouped by weight, mode_of_transport")

\* C6: the explanation is "Applied query: " followed by the query exactly
\* when each of filterModel, sortModel and rowGroupColumns is absent from
\* the patch or empty.
C6_FallbackIffNoFragment ==
  ge.pc = "returned" =>
    /\ ge.out.ok
    /\ (ge.out.val = "Applied query: " \o ge.query.s)
         <=> (/\ FiltersOf(ge.state) = <<>>
              /\ SortsOf(ge.state) = <<>>
              /\ GroupsOf(ge.state) = <<>>)

\* C6 witness: the empty patch is explained by the fallback.
C6_Witness ==
  /\ ge.pc = "returned"
  /\ ge.state = JObj(<<>>)
  /\ ge.query = SomeQuery
  /\ ge.out = Ok("Applied query: show TRUCK parcels by weight")

====
